---- MODULE Spec2Model ----
(***************************************************************************)
(* Model of notebooks/api_explorer.py: the ScryfallExplorer class          *)
(* (_make_request, explore_sets, explore_cards, save_exploration_results)  *)
(* and the script's main().                                                *)
(*                                                                         *)
(* Representation of Python values:                                        *)
(*   str    a sequence of code points, "R" is <<82>>                       *)
(*   None   (where a str is expected) the sequence None == <<-1>>          *)
(*   dict   a function from keys (TLA+ strings) to values; d.get(k) is     *)
(*          Get(d, k)                                                      *)
(*   None   (where a dict is expected) the record NoneDict                 *)
(*   list   a sequence                                                     *)
(*   set    a set; list(a_set) is ListOf(a_set), one fixed order           *)
(***************************************************************************)
EXTENDS Integers, Sequences, FiniteSets, TLC

VARIABLES
    entry,           \* who drives the explorer: "main", or a direct caller
    pc,              \* position in the running code
    limit,           \* the limit argument of the running explore_* call
    endpoint,        \* the endpoint argument of the running _make_request
    calls,           \* explore_* calls begun
    wire,            \* pacing delays and outbound GETs, in order
    exchange,        \* what the last HTTP exchange ended with
    data_ret,        \* what the last _make_request returned
    sets_analysis,   \* what explore_sets returned
    cards_analysis,  \* what explore_cards returned
    file,            \* content of data/exploration/sets_analysis.json
    save_io,         \* how the persister's file write ended
    save_ret,        \* what save_exploration_results returned
    exc              \* the exception that left the running code, if any

vars == <<entry, pc, limit, endpoint, calls, wire, exchange, data_ret,
          sets_analysis, cards_analysis, file, save_io, save_ret, exc>>

----------------------------------------------------------------------------
(* Bounds of the model *)

MaxSets == 2
MaxCards == 2
MaxLimit == 2

----------------------------------------------------------------------------
(* Python values *)

None == <<-1>>

NoneDict == [None |-> TRUE]

EmptyDict == [k \in {} |-> None]

IsNone(d) == DOMAIN d = DOMAIN NoneDict

\* `not d` for d a dict or None
Falsy(d) == IsNone(d) \/ DOMAIN d = {}

\* `if s:` for s a str or None
Truthy(s) == s # None /\ s # <<>>

\* d.get(k)
Get(d, k) == IF k \in DOMAIN d THEN d[k] ELSE None

\* d.get(k, default)
GetDefault(d, k, default) == IF k \in DOMAIN d THEN d[k] ELSE default

Min(a, b) == IF a <= b THEN a ELSE b

\* SliceTo without the limit: the whole list is visited
SliceToWhole(s, n) == s

\* s[:n], n a count (n >= 0)
SliceTo(s, n) == SubSeq(s, 1, Min(n, Len(s)))

Range(s) == {s[i] : i \in DOMAIN s}

\* a < b on str: by code point, a proper prefix is smaller
RECURSIVE StrLess(_, _)
StrLess(a, b) ==
    IF b = <<>> THEN FALSE
    ELSE IF a = <<>> THEN TRUE
    ELSE IF a[1] # b[1] THEN a[1] < b[1]
    ELSE StrLess(Tail(a), Tail(b))

\* list(a_set): the elements once each, in an order the program does not choose
ListOf(S) ==
    CHOOSE l \in [1..Cardinality(S) -> S] : Range(l) = S

----------------------------------------------------------------------------
(* str.split('-')[0] and str.strip() *)

\* the code points str.strip() removes
Whitespace ==
    (9..13) \cup (28..32) \cup {133, 160, 5760} \cup (8192..8202)
        \cup {8232, 8233, 8239, 8287, 12288}

\* s.split(sep)[0] for a one-character sep: what precedes the first sep
RECURSIVE SplitFirst(_, _)
SplitFirst(s, sep) ==
    IF s = <<>> \/ s[1] = sep[1] THEN <<>>
    ELSE <<s[1]>> \o SplitFirst(Tail(s), sep)

RECURSIVE LStrip(_)
LStrip(s) ==
    IF s # <<>> /\ s[1] \in Whitespace THEN LStrip(Tail(s)) ELSE s

RECURSIVE RStrip(_)
RStrip(s) ==
    IF s # <<>> /\ s[Len(s)] \in Whitespace
    THEN RStrip(SubSeq(s, 1, Len(s) - 1))
    ELSE s

\* s.strip()
Strip(s) == RStrip(LStrip(s))

\* the separator explore_cards splits type_line on: '-'
TypeSeparator == <<45>>

\* card.get('type_line').split('-')[0].strip()
CardTypeOf(type_line) == Strip(SplitFirst(type_line, TypeSeparator))

----------------------------------------------------------------------------
(* explore_sets, after the fetch *)

\* the set_info record of one entry
SetInfo(set_data) ==
    [object      |-> Get(set_data, "object"),
     code        |-> Get(set_data, "code"),
     name        |-> Get(set_data, "name"),
     set_type    |-> Get(set_data, "set_type"),
     card_count  |-> Get(set_data, "card_count"),
     released_at |-> Get(set_data, "released_at"),
     keys        |-> DOMAIN set_data]

\* DateStep without the two comparisons: the last date seen wins
DateStepLastWins(range, release_date) ==
    IF Truthy(release_date)
    THEN [oldest |-> release_date, newest |-> release_date]
    ELSE range

\* one pass of the loop body over date_range
DateStep(range, release_date) ==
    IF Truthy(release_date)
    THEN LET oldest == IF ~Truthy(range.oldest) \/ StrLess(release_date, range.oldest)
                       THEN release_date ELSE range.oldest
             newest == IF ~Truthy(range.newest) \/ StrLess(range.newest, release_date)
                       THEN release_date ELSE range.newest
         IN  [oldest |-> oldest, newest |-> newest]
    ELSE range

\* date_range after the loop over sample
RECURSIVE DateRange(_, _)
DateRange(sample, range) ==
    IF sample = <<>> THEN range
    ELSE DateRange(Tail(sample), DateStep(range, Get(sample[1], "released_at")))

\* what the loop adds to set_types for one entry
SetTypeAdded(set_data) == {Get(set_data, "set_type")}

ExploreSetsAnalysis(sets_data, lim) ==
    LET data   == GetDefault(sets_data, "data", <<>>)
        sample == SliceTo(data, lim)
    IN  [total_sets     |-> Len(data),
         structure_keys |-> DOMAIN sets_data,
         sample_sets    |-> [i \in 1..Len(sample) |-> SetInfo(sample[i])],
         set_types      |-> ListOf(UNION {SetTypeAdded(sample[i]) : i \in 1..Len(sample)}),
         date_range     |-> DateRange(sample, [oldest |-> None, newest |-> None])]

\* the failure test on what _make_request returned
FetchFailed(d) == Falsy(d)

\* explore_sets from the return of _make_request on
ExploreSetsResult(sets_data, lim) ==
    IF FetchFailed(sets_data)
    THEN [error |-> "Falha ao obter dados dos sets"]
    ELSE ExploreSetsAnalysis(sets_data, lim)

----------------------------------------------------------------------------
(* explore_cards, after the fetch *)

CardInfo(card) ==
    [name       |-> Get(card, "name"),
     mana_cost  |-> Get(card, "mana_cost"),
     type_line  |-> Get(card, "type_line"),
     rarity     |-> Get(card, "rarity"),
     colors     |-> GetDefault(card, "colors", <<>>),
     set        |-> Get(card, "set"),
     lang       |-> Get(card, "lang"),
     keys       |-> DOMAIN card,
     total_keys |-> Cardinality(DOMAIN card)]

\* what the loop adds to card_types for one card
CardTypeAdded(card) ==
    IF Truthy(Get(card, "type_line"))
    THEN {CardTypeOf(Get(card, "type_line"))}
    ELSE {}

\* what the loop adds to rarities (field "rarity") and languages (field "lang")
FieldAdded(card, k) ==
    IF Truthy(Get(card, k)) THEN {Get(card, k)} ELSE {}

\* what the loop adds to colors for one card
ColorsAdded(card) ==
    IF "colors" \in DOMAIN card /\ card["colors"] # <<>>
    THEN Range(card["colors"])
    ELSE {}

\* SampledCards without the limit
SampledCardsAll(cards_data, lim) == GetDefault(cards_data, "data", <<>>)

\* the cards the loop visits
SampledCards(cards_data, lim) == SliceTo(GetDefault(cards_data, "data", <<>>), lim)

ExploreCardsAnalysis(cards_data, lim) ==
    LET sample == SampledCards(cards_data, lim)
        idx    == 1..Len(sample)
    IN  [total_cards    |-> GetDefault(cards_data, "total_cards", 0),
         has_more       |-> GetDefault(cards_data, "has_more", FALSE),
         structure_keys |-> DOMAIN cards_data,
         sample_cards   |-> [i \in idx |-> CardInfo(sample[i])],
         card_types     |-> ListOf(UNION {CardTypeAdded(sample[i]) : i \in idx}),
         colors         |-> ListOf(UNION {ColorsAdded(sample[i]) : i \in idx}),
         rarities       |-> ListOf(UNION {FieldAdded(sample[i], "rarity") : i \in idx}),
         languages      |-> ListOf(UNION {FieldAdded(sample[i], "lang") : i \in idx})]

\* explore_cards from the return of _make_request on (set_core = "inr")
ExploreCardsResult(cards_data, lim) ==
    IF FetchFailed(cards_data)
    THEN [error |-> "Falha ao obter cartas do set inr"]
    ELSE ExploreCardsAnalysis(cards_data, lim)

----------------------------------------------------------------------------
(* What the server may answer: the payloads the model draws from *)

\* marks a key the server left out of an entry
Absent == <<-2>>

STR_list      == <<108, 105, 115, 116>>                          \* "list"
STR_inr       == <<105, 110, 114>>                               \* "inr"
STR_expansion == <<101, 120, 112, 97, 110, 115, 105, 111, 110>>  \* "expansion"
STR_masters   == <<109, 97, 115, 116, 101, 114, 115>>            \* "masters"
DATE_2019     == <<50, 48, 49, 57, 45, 48, 51, 45, 49, 53>>      \* "2019-03-15"
DATE_2023     == <<50, 48, 50, 51, 45, 48, 49, 45, 48, 49>>      \* "2023-01-01"
STR_Bolt      == <<66, 111, 108, 116>>                           \* "Bolt"
STR_Instant   == <<73, 110, 115, 116, 97, 110, 116>>             \* "Instant"
STR_Creature  == <<67, 114, 101, 97, 116, 117, 114, 101>>        \* "Creature"
STR_Human     == <<72, 117, 109, 97, 110>>                       \* "Human"
STR_common    == <<99, 111, 109, 109, 111, 110>>                 \* "common"
STR_en        == <<101, 110>>                                    \* "en"
STR_R         == <<82>>                                          \* "R"
STR_G         == <<71>>                                          \* "G"
HYPHEN        == <<45>>                                          \* "-"
EM_DASH       == <<8212>>                                        \* the em-dash of Scryfall type lines
SPACE         == <<32>>                                          \* " "

\* an entry of the sets collection: set_type and released_at may be absent,
\* released_at may be null
SetEntry(set_type, released_at) ==
    [k \in {"code"} \cup (IF set_type # Absent THEN {"set_type"} ELSE {})
                    \cup (IF released_at # Absent THEN {"released_at"} ELSE {})
       |-> CASE k = "code" -> STR_inr
             [] k = "set_type" -> set_type
             [] k = "released_at" -> released_at]

SetEntries ==
    {SetEntry(t, r) : t \in {Absent, STR_expansion, STR_masters},
                      r \in {Absent, None, DATE_2019, DATE_2023}}

\* the colour lists a card may carry; 0 stands for no "colors" key
ColorLists == << <<>>, <<STR_R>>, <<STR_G, STR_R>> >>

CardEntry(type_line, colors, rarity, lang) ==
    [k \in {"name"} \cup (IF type_line # Absent THEN {"type_line"} ELSE {})
                    \cup (IF colors # 0 THEN {"colors"} ELSE {})
                    \cup (IF rarity # Absent THEN {"rarity"} ELSE {})
                    \cup (IF lang # Absent THEN {"lang"} ELSE {})
       |-> CASE k = "name" -> STR_Bolt
             [] k = "type_line" -> type_line
             [] k = "colors" -> ColorLists[colors]
             [] k = "rarity" -> rarity
             [] k = "lang" -> lang]

TypeLines ==
    {Absent, STR_Instant,
     STR_Creature \o SPACE \o EM_DASH \o SPACE \o STR_Human,
     STR_Creature \o SPACE \o HYPHEN \o SPACE \o STR_Human}

\* every type line with every colour list, and cards that carry a rarity,
\* a language or both
CardEntries ==
    {CardEntry(t, c, Absent, Absent) : t \in TypeLines, c \in 0..Len(ColorLists)}
        \cup {CardEntry(STR_Instant, 2, STR_common, STR_en),
              CardEntry(Absent, 0, STR_common, Absent),
              CardEntry(Absent, 0, Absent, STR_en)}

SeqsUpTo(S, n) == UNION {[1..m -> S] : m \in 0..n}

\* a JSON object with no "data" field
NoDataObject == [object |-> STR_list]

\* a sets collection
SetsPayload(data) == [object |-> STR_list, has_more |-> FALSE, data |-> data]

\* a page of a card search
CardsPayload(has_more, data) ==
    [object |-> STR_list, total_cards |-> Len(data) + (IF has_more THEN 1 ELSE 0),
     has_more |-> has_more, data |-> data]

\* a card search page without total_cards and has_more
BareCardsPayload(data) == [object |-> STR_list, data |-> data]

SetsBodies ==
    {NoDataObject} \cup {SetsPayload(d) : d \in SeqsUpTo(SetEntries, MaxSets)}

CardsBodies ==
    {NoDataObject}
        \cup {CardsPayload(m, d) : m \in BOOLEAN, d \in SeqsUpTo(CardEntries, MaxCards)}
        \cup {BareCardsPayload(d) : d \in SeqsUpTo(CardEntries, MaxCards)}

\* the two examples of the specification's section 8
ExampleSetsPayload ==
    SetsPayload(<<SetEntry(STR_expansion, DATE_2023), SetEntry(STR_masters, DATE_2019)>>)

ExampleCardsPayload ==
    CardsPayload(TRUE, <<CardEntry(STR_Instant, 2, STR_common, STR_en)>>)

\* under main the server answers with one of a few payloads
MainSetsBodies == {NoDataObject, ExampleSetsPayload}

MainCardsBodies == {NoDataObject, ExampleCardsPayload}

Bodies(who, ep) ==
    IF ep = "/sets"
    THEN (IF who = "main" THEN MainSetsBodies ELSE SetsBodies)
    ELSE (IF who = "main" THEN MainCardsBodies ELSE CardsBodies)

----------------------------------------------------------------------------
(* The program *)

\* the limits main passes to explore_sets and to explore_cards
MainSetsLimit == 20

MainCardsLimit == 5

\* how session.get, raise_for_status and response.json can fail
RequestExceptions == {"ConnectionError", "Timeout", "HTTPError"}

FailureKinds == RequestExceptions \cup {"JSONDecodeError"}

\* Caught without the second except clause
CaughtRequestOnly(kind) == kind \in RequestExceptions

\* the except clauses of _make_request
Caught(kind) == kind \in RequestExceptions \/ kind = "JSONDecodeError"

\* AfterRequest with pagination: a page with has_more fetches again
AfterRequestPaginating(ep, ret) ==
    IF ep = "/cards/search" /\ GetDefault(ret, "has_more", FALSE)
    THEN "request_get"
    ELSE IF ep = "/sets" THEN "sets_analyze" ELSE "cards_analyze"

\* where _make_request returns to
AfterRequest(ep, ret) == IF ep = "/sets" THEN "sets_analyze" ELSE "cards_analyze"

\* save_exploration_results has no return statement: it returns None either way
SaveReturn(io) == "None"

Init ==
    /\ entry \in {"main", "explore_sets", "explore_cards"}
    /\ pc = entry
    /\ limit \in (IF entry = "main" THEN {0} ELSE 0..MaxLimit)
    /\ endpoint = "none"
    /\ calls = 0
    /\ wire = <<>>
    /\ exchange = "none"
    /\ data_ret = NoneDict
    /\ sets_analysis = NoneDict
    /\ cards_analysis = NoneDict
    /\ file = NoneDict
    /\ save_io = "none"
    /\ save_ret = "unset"
    /\ exc = "none"

\* main up to the call of explore_sets: the logs directory is made, or mkdir raises
MainSetup ==
    /\ pc = "main"
    /\ \/ /\ pc' = "explore_sets"
          /\ exc' = exc
       \/ /\ pc' = "raised"
          /\ exc' = "main: OSError"
    /\ UNCHANGED <<entry, limit, endpoint, calls, wire, exchange, data_ret, sets_analysis,
                   cards_analysis, file, save_io, save_ret>>

\* explore_sets up to its call of _make_request
ExploreSets ==
    /\ pc = "explore_sets"
    /\ calls' = calls + 1
    /\ endpoint' = "/sets"
    /\ limit' = (IF entry = "main" THEN MainSetsLimit ELSE limit)
    /\ pc' = "request_sleep"
    /\ UNCHANGED <<entry, wire, exchange, data_ret, sets_analysis,
                   cards_analysis, file, save_io, save_ret, exc>>

\* explore_cards up to its call of _make_request
ExploreCards ==
    /\ pc = "explore_cards"
    /\ calls' = calls + 1
    /\ endpoint' = "/cards/search"
    /\ limit' = (IF entry = "main" THEN MainCardsLimit ELSE limit)
    /\ pc' = "request_sleep"
    /\ UNCHANGED <<entry, wire, exchange, data_ret, sets_analysis,
                   cards_analysis, file, save_io, save_ret, exc>>

\* _make_request: time.sleep(self.request_delay)
RequestSleep ==
    /\ pc = "request_sleep"
    /\ wire' = Append(wire, "sleep")
    /\ pc' = "request_get"
    /\ UNCHANGED <<entry, limit, endpoint, calls, exchange, data_ret, sets_analysis,
                   cards_analysis, file, save_io, save_ret, exc>>

\* _make_request returns the decoded body
Respond(body) ==
    /\ exchange' = "ok"
    /\ data_ret' = body
    /\ pc' = AfterRequest(endpoint, body)
    /\ exc' = exc

\* _make_request: the exchange raised
Fail(kind) ==
    /\ exchange' = kind
    /\ IF Caught(kind)
       THEN /\ data_ret' = NoneDict
            /\ pc' = AfterRequest(endpoint, NoneDict)
            /\ exc' = exc
       ELSE /\ data_ret' = data_ret
            /\ pc' = "raised"
            /\ exc' = kind

\* _make_request: session.get, raise_for_status, response.json and the return
RequestGet ==
    /\ pc = "request_get"
    /\ wire' = Append(wire, "GET")
    /\ \/ \E kind \in FailureKinds : Fail(kind)
       \/ Respond(EmptyDict)
       \/ \E body \in Bodies(entry, endpoint) : Respond(body)
    /\ UNCHANGED <<entry, limit, endpoint, calls, sets_analysis, cards_analysis,
                   file, save_io, save_ret>>

\* explore_sets from the return of _make_request to its own return
SetsAnalyze ==
    /\ pc = "sets_analyze"
    /\ sets_analysis' = ExploreSetsResult(data_ret, limit)
    /\ pc' = IF entry = "main" THEN "save_mkdir" ELSE "done"
    /\ UNCHANGED <<entry, limit, endpoint, calls, wire, exchange, data_ret,
                   cards_analysis, file, save_io, save_ret, exc>>

\* save_exploration_results: Path("data/exploration").mkdir, outside the try
SaveMkdir ==
    /\ pc = "save_mkdir"
    /\ \/ /\ pc' = "save_write"
          /\ exc' = exc
       \/ /\ pc' = "raised"
          /\ exc' = "save_exploration_results: OSError"
    /\ UNCHANGED <<entry, limit, endpoint, calls, wire, exchange, data_ret,
                   sets_analysis, cards_analysis, file, save_io, save_ret>>

\* the file after the try block: written, left alone (open failed), or cut short
FileAfter(io, old, results) ==
    CASE io = "written" -> results
      [] io = "open_failed" -> old
      [] io = "write_failed" -> [truncated |-> TRUE]

\* save_exploration_results: the try block and the return, back in main
SaveWrite ==
    /\ pc = "save_write"
    /\ \E io \in {"written", "open_failed", "write_failed"} :
          /\ save_io' = io
          /\ file' = FileAfter(io, file, sets_analysis)
          /\ save_ret' = SaveReturn(io)
    /\ pc' = "explore_cards"
    /\ UNCHANGED <<entry, limit, endpoint, calls, wire, exchange, data_ret, sets_analysis,
                   cards_analysis, exc>>

\* explore_cards from the return of _make_request to its own return
CardsAnalyze ==
    /\ pc = "cards_analyze"
    /\ cards_analysis' = ExploreCardsResult(data_ret, limit)
    /\ pc' = IF entry = "main" THEN "print" ELSE "done"
    /\ UNCHANGED <<entry, limit, endpoint, calls, wire, exchange, data_ret,
                   sets_analysis, file, save_io, save_ret, exc>>

\* main: print(cards_analysis), the last statement
MainPrint ==
    /\ pc = "print"
    /\ pc' = "done"
    /\ UNCHANGED <<entry, limit, endpoint, calls, wire, exchange, data_ret,
                   sets_analysis, cards_analysis, file, save_io, save_ret, exc>>

Next ==
    \/ MainSetup
    \/ ExploreSets
    \/ ExploreCards
    \/ RequestSleep
    \/ RequestGet
    \/ SetsAnalyze
    \/ SaveMkdir
    \/ SaveWrite
    \/ CardsAnalyze
    \/ MainPrint

Spec == Init /\ [][Next]_vars

----------------------------------------------------------------------------
(* What the claims speak of *)

IsError(a) == DOMAIN a = {"error"}

IsSetSummary(a) == "total_sets" \in DOMAIN a

IsCardSummary(a) == "total_cards" \in DOMAIN a

\* explore_sets has returned and data_ret is still what its fetch returned
SetsReturned == endpoint = "/sets" /\ ~IsNone(sets_analysis)

\* explore_cards has returned
CardsReturned == endpoint = "/cards/search" /\ ~IsNone(cards_analysis)

\* the entries the server sent, when the fetch returned a body with a data field
ServerData == data_ret["data"]

HasData == exchange = "ok" /\ "data" \in DOMAIN data_ret

NoDuplicates(l) == Cardinality(Range(l)) = Len(l)

----------------------------------------------------------------------------
(* C1: for a sets payload whose data field holds N entries and a limit L,  *)
(* the summary explore_sets returns has total_sets = N and sample_sets of  *)
(* length min(N, L), the first min(N, L) entries in the server's order.    *)
C1_SampleIsLimitedPrefix ==
    (SetsReturned /\ HasData) =>
        /\ IsSetSummary(sets_analysis)
        /\ sets_analysis["total_sets"] = Len(ServerData)
        /\ Len(sets_analysis["sample_sets"]) = Min(Len(ServerData), limit)
        /\ \A i \in 1..Len(sets_analysis["sample_sets"]) :
              LET info == sets_analysis["sample_sets"][i]
              IN  /\ info.keys = DOMAIN ServerData[i]
                  /\ info.code = Get(ServerData[i], "code")
                  /\ info.set_type = Get(ServerData[i], "set_type")
                  /\ info.released_at = Get(ServerData[i], "released_at")

\* two entries were sent, the limit was 1, and the one sampled entry is the first
C1_Witness ==
    /\ SetsReturned /\ HasData
    /\ limit = 1
    /\ Len(ServerData) = 2
    /\ ServerData[1] # ServerData[2]
    /\ sets_analysis["total_sets"] = 2
    /\ Len(sets_analysis["sample_sets"]) = 1

----------------------------------------------------------------------------
(* C2: when the fetch fails (connection error, timeout, error status,      *)
(* undecodable body) _make_request returns None and nothing is raised, and *)
(* explore_sets / explore_cards return a result holding only "error".      *)
C2_FailedFetchIsSoft ==
    /\ exc \notin FailureKinds
    /\ exchange \in FailureKinds =>
          /\ IsNone(data_ret)
          /\ SetsReturned => IsError(sets_analysis)
          /\ CardsReturned => IsError(cards_analysis)

\* main ran to its end with both fetches failed, the last on an undecodable body
C2_Witness ==
    /\ entry = "main"
    /\ pc = "done"
    /\ exchange = "JSONDecodeError"
    /\ IsError(sets_analysis)
    /\ IsError(cards_analysis)
    /\ calls = 2

----------------------------------------------------------------------------
\* what precedes the first hyphen or em-dash of s
RECURSIVE BeforeAnyDash(_)
BeforeAnyDash(s) ==
    IF s = <<>> \/ s[1] \in {HYPHEN[1], EM_DASH[1]} THEN <<>>
    ELSE <<s[1]>> \o BeforeAnyDash(Tail(s))

\* the cards explore_cards visited
Sampled == SubSeq(ServerData, 1, Min(Len(ServerData), limit))

(* C3: no element of card_types holds a hyphen or an em-dash, and each is  *)
(* the trimmed part, before its first hyphen or em-dash, of the type_line  *)
(* of a sampled card; a card without type_line adds nothing.               *)
C3_CardTypesHoldNoDash ==
    (CardsReturned /\ HasData) =>
        \A t \in Range(cards_analysis["card_types"]) :
            /\ HYPHEN[1] \notin Range(t)
            /\ EM_DASH[1] \notin Range(t)
            /\ \E i \in 1..Len(Sampled) :
                  /\ "type_line" \in DOMAIN Sampled[i]
                  /\ t = Strip(BeforeAnyDash(Sampled[i]["type_line"]))

----------------------------------------------------------------------------
(* C4: save_exploration_results never raises, and on an I/O failure it     *)
(* returns a value the caller can tell from the one returned on success.   *)
C4_SaveNeverRaisesAndReportsFailure ==
    /\ exc # "save_exploration_results: OSError"
    /\ save_io \in {"open_failed", "write_failed"} =>
          save_ret # SaveReturn("written")

----------------------------------------------------------------------------
(* C5: when the sets fetch succeeds with a JSON object without a data      *)
(* field, the empty object included, explore_sets returns a summary with   *)
(* total_sets = 0 and no sample_sets, not an error.                        *)
C5_NoDataFieldIsEmptySummary ==
    (SetsReturned /\ exchange = "ok" /\ "data" \notin DOMAIN data_ret) =>
        /\ IsSetSummary(sets_analysis)
        /\ sets_analysis["total_sets"] = 0
        /\ sets_analysis["sample_sets"] = <<>>

----------------------------------------------------------------------------
\* the non-null release dates of the sampled entries, as the summary lists them
SampledDates ==
    {sets_analysis["sample_sets"][i].released_at :
        i \in 1..Len(sets_analysis["sample_sets"])} \ {None}

\* a <= b on str
StrLeq(a, b) == ~StrLess(b, a)

(* C6: oldest <= d <= newest for every non-null release date d of a        *)
(* sampled entry; oldest and newest are null exactly when no sampled entry *)
(* has a release date; entries without one do not change them: oldest and  *)
(* newest are themselves release dates of sampled entries.                 *)
C6_DateRangeBoundsSampledDates ==
    (SetsReturned /\ IsSetSummary(sets_analysis)) =>
        LET range == sets_analysis["date_range"]
        IN  /\ \A d \in SampledDates :
                  StrLeq(range.oldest, d) /\ StrLeq(d, range.newest)
            /\ (range.oldest = None) <=> (SampledDates = {})
            /\ (range.newest = None) <=> (SampledDates = {})
            /\ SampledDates # {} =>
                  range.oldest \in SampledDates /\ range.newest \in SampledDates

\* two entries were sampled, the newer one first
C6_Witness ==
    /\ SetsReturned /\ IsSetSummary(sets_analysis)
    /\ Len(sets_analysis["sample_sets"]) = 2
    /\ sets_analysis["sample_sets"][1].released_at = DATE_2023
    /\ sets_analysis["sample_sets"][2].released_at = DATE_2019
    /\ sets_analysis["date_range"] = [oldest |-> DATE_2019, newest |-> DATE_2023]

----------------------------------------------------------------------------
(* C7: main reaches its end whatever the fetches do: after a failed sets   *)
(* exploration the persister is called with the error result, the file     *)
(* then holds only the error record, and the card exploration follows.     *)
C7_MainGoesOnAfterFailedSets ==
    (entry = "main" /\ IsError(sets_analysis)) =>
        /\ pc # "raised"
        /\ pc \notin {"save_mkdir", "save_write"} => file = sets_analysis

----------------------------------------------------------------------------
\* n pacing delays each followed by one GET
Paced(n) == [i \in 1..(2 * n) |-> IF i % 2 = 1 THEN "sleep" ELSE "GET"]

(* C8: each call of explore_sets or explore_cards issues one GET, after    *)
(* one pacing delay: none follows a failure, none follows has_more = true, *)
(* and has_more is only copied into the summary.                           *)
C8_OneDelayThenOneGetPerCall ==
    /\ wire = CASE pc = "request_sleep" -> Paced(calls - 1)
                [] pc = "request_get" -> Append(Paced(calls - 1), "sleep")
                [] OTHER -> Paced(calls)
    /\ (CardsReturned /\ IsCardSummary(cards_analysis)) =>
          cards_analysis["has_more"] = GetDefault(data_ret, "has_more", FALSE)

\* an explore_cards call is over: the page said has_more, one GET went out
C8_Witness ==
    /\ entry = "explore_cards"
    /\ pc = "done"
    /\ IsCardSummary(cards_analysis)
    /\ cards_analysis["has_more"] = TRUE
    /\ wire = <<"sleep", "GET">>

----------------------------------------------------------------------------
\* the colour list of a card, empty when it has none
ColorsOf(card) == IF "colors" \in DOMAIN card THEN card["colors"] ELSE <<>>

(* C9: colors holds, once each, the colours of the first min(N, limit)     *)
(* cards and no others.                                                    *)
C9_ColorsAreUnionOfSampled ==
    (CardsReturned /\ HasData) =>
        /\ NoDuplicates(cards_analysis["colors"])
        /\ Range(cards_analysis["colors"]) =
              UNION {Range(ColorsOf(ServerData[i])) :
                        i \in 1..Min(Len(ServerData), limit)}

\* the second card, beyond the limit, has a colour the first has not
C9_Witness ==
    /\ CardsReturned /\ HasData
    /\ limit = 1
    /\ Len(ServerData) = 2
    /\ ColorsOf(ServerData[1]) = <<STR_R>>
    /\ ColorsOf(ServerData[2]) = <<STR_G, STR_R>>
    /\ cards_analysis["colors"] = <<STR_R>>

----------------------------------------------------------------------------
(* C10: set_types holds no duplicates, each element is the set_type of a   *)
(* sampled entry, and an entry without set_type adds nothing, no null.     *)
C10_SetTypesHoldNoNull ==
    (SetsReturned /\ HasData) =>
        /\ NoDuplicates(sets_analysis["set_types"])
        /\ \A t \in Range(sets_analysis["set_types"]) :
              /\ t # None
              /\ \E i \in 1..Len(Sampled) :
                    "set_type" \in DOMAIN Sampled[i] /\ Sampled[i]["set_type"] = t

====
